---- MODULE Spec2Model ----
(***************************************************************************)
(* Model of src/audit.py ("Difraccion v5"): equilibrium search between two *)
(* poles of a semantic graph, stability assessment, refine pass, synthesis *)
(* search and duality rejection.                                           *)
(*                                                                         *)
(* Encoding of the Python values:                                          *)
(*  - a real number is an integer count of a fixed unit: edge weights,     *)
(*    ratio_min and balance_max in hundredths, lambda_balance in tenths,   *)
(*    a relevance (PageRank) value a level in 0..MaxRel, a score in        *)
(*    tenths of a relevance level (score10 = 10 * score);                  *)
(*  - a node name is a string; str.lower() is the table Lower;             *)
(*  - an axis identifier "eje:x:y" is the sequence of its ':'-separated    *)
(*    tokens <<"eje","x","y">>; None and "" (both falsy) are <<>>;         *)
(*  - a Python list is a sequence, a set a set, None for a string "None".  *)
(***************************************************************************)
EXTENDS Integers, Sequences, FiniteSets, TLC

VARIABLES
    G,          \* the loaded graph (cargar_red): nodes, node attributes, edges
    args,       \* the parsed command line (argparse namespace)
    pc,         \* position of main(), or of the single call of a function
    pa, pb, pe, \* the relevance vectors nx.pagerank returned for a, b, eq
    eq1, v1,    \* pass 1: ranked list and its stability verdict
    eq2, v2,    \* pass 2 (refine): ranked list and its stability verdict
    eq_final,   \* main's eq_final
    axes_filtro_final, \* main's axes_filtro_final
    axes_filtro_s, \* main's axes_filtro_s
    sints,      \* the list buscar_sintesis returned
    reported,   \* the synthesis list main printed
    log,        \* the events of the run, in order
    call,       \* the arguments of a direct call of one function
    ret         \* what that call returned or raised

vars == <<G, args, pc, pa, pb, pe, eq1, v1, eq2, v2, eq_final,
          axes_filtro_final, axes_filtro_s, sints, reported, log, call, ret>>

-----------------------------------------------------------------------------
(* Values *)

None == "None"
NoAxis == <<>>

Abs(x) == IF x < 0 THEN -x ELSE x
Min(x, y) == IF x < y THEN x ELSE y
Max(x, y) == IF x > y THEN x ELSE y

\* str.lower() on the strings the model uses
Lower(s) ==
    CASE s = "Hot" -> "hot"
      [] s = "HOT" -> "hot"
      [] s = "Cold" -> "cold"
      [] s = "Futuro" -> "futuro"
      [] s = "Emergente" -> "emergente"
      [] OTHER -> s

\* EXCLUIR_NODOS_DEFAULT
EXCLUIR_NODOS_DEFAULT ==
    {"arriba", "abajo", "izquierda", "derecha", "delante", "detrás", "detras",
     "centro focal", "pasado", "presente", "futuro",
     "ia_m", "subconsciente", "subconsciente_semantico"}

\* the first k elements of a list: s[:k]
Take(s, k) == SubSeq(s, 1, Min(Len(s), Max(k, 0)))

\* s[i:j] of Python, 0-based, end exclusive
Slice(s, i, j) == SubSeq(s, i + 1, Min(Len(s), j))

Range(s) == {s[i] : i \in 1..Len(s)}

-----------------------------------------------------------------------------
(* Graph access *)

\* name in G
InGraph(g, name) == name \in Range(g.nodes)

\* resolve_node without the case-insensitive search of lines 51-54
resolve_node_ExactOnly(g, name) == name

\* resolve_node: the exact name, else the first node equal to it ignoring
\* case, else the name itself
resolve_node(g, name) ==
    IF InGraph(g, name) THEN name
    ELSE LET hits == {i \in 1..Len(g.nodes) : Lower(g.nodes[i]) = Lower(name)}
         IN IF hits = {} THEN name
            ELSE g.nodes[CHOOSE i \in hits : \A j \in hits : i <= j]

\* tipo_nodo: (tipo_global or tipo or "concepto").lower(); "" is falsy
tipo_nodo(g, n) ==
    IF ~InGraph(g, n) THEN "concepto"
    ELSE LET d == g.attrs[n]
         IN Lower(IF d.tipo_global # "" THEN d.tipo_global
                  ELSE IF d.tipo # "" THEN d.tipo
                  ELSE "concepto")

\* axes_de_nodo: the keys of the node's roles
axes_de_nodo(g, n) == IF InGraph(g, n) THEN g.attrs[n].roles ELSE {}

\* str(ax).startswith("eje:dualidad_auto:")
IsAutoDualidad(ax) ==
    /\ Len(ax) >= 3
    /\ ax[1] = "eje"
    /\ ax[2] = "dualidad_auto"

normalize_axis_set(axes, exclude_auto_dualidad) ==
    IF axes = {} THEN {}
    ELSE IF ~exclude_auto_dualidad THEN axes
    ELSE {ax \in axes : ~IsAutoDualidad(ax)}

-----------------------------------------------------------------------------
(* build_propagation_graph *)

WeightDefault == 100
WeightMin == 5
WeightMax == 500
EmbeddingCap == 20
WeightOff == 100

EdgeWeight(d) == IF "weight" \in DOMAIN d THEN d.weight ELSE WeightDefault

\* PropagationEdge without the clamp of line 100: w is used as capped
PropagationEdge_NoClamp(d, modo, usar_pesos) ==
    LET w0 == EdgeWeight(d)
        w1 == IF modo = "mixto" /\ d.tipo = "embedding"
              THEN Min(w0, EmbeddingCap) ELSE w0
        w2 == IF ~usar_pesos THEN WeightOff ELSE w1
    IN IF modo = "estructura" /\ (d.tipo = "embedding" \/ d.tipo = None)
       THEN {}
       ELSE {[u |-> d.u, v |-> d.v, weight |-> w2, tipo |-> d.tipo]}

\* the body of the loop for one edge under a valid mode: the set of edges it
\* adds to H (none after `continue`)
PropagationEdge(d, modo, usar_pesos) ==
    LET w0 == EdgeWeight(d)
        w1 == IF modo = "mixto" /\ d.tipo = "embedding"
              THEN Min(w0, EmbeddingCap) ELSE w0
        w2 == IF ~usar_pesos THEN WeightOff
              ELSE Max(WeightMin, Min(WeightMax, w1))
    IN IF modo = "estructura" /\ (d.tipo = "embedding" \/ d.tipo = None)
       THEN {}
       ELSE {[u |-> d.u, v |-> d.v, weight |-> w2, tipo |-> d.tipo]}

ValidModes == {"estructura", "mixto", "todo"}

\* the mode is looked at inside the loop over the edges: it raises at the
\* first edge, and not at all when there is none
BuildRaises(g, modo) == modo \notin ValidModes /\ g.edges # {}

build_propagation_graph(g, modo, usar_pesos) ==
    IF BuildRaises(g, modo)
    THEN [err |-> "InvalidConfiguration", nodes |-> <<>>, edges |-> {}]
    ELSE [err |-> "ok",
          nodes |-> g.nodes,
          edges |-> UNION {PropagationEdge(d, modo, usar_pesos) : d \in g.edges}]

-----------------------------------------------------------------------------
(* ppr: nx.pagerank personalised on one source, an external computation *)

MaxRel == 2

\* the nodes the walk from the nodes S can visit in H
RECURSIVE ReachFrom(_, _)
ReachFrom(H, S) ==
    LET next == S \cup {e.v : e \in {d \in H.edges : d.u \in S}}
    IN IF next = S THEN S ELSE ReachFrom(H, next)

\* What ppr(H, source) may return, in units of relevance: the walk restarts
\* at the source alone (dangling nodes restart there too), so a node it
\* cannot reach gets 0 and a node it can reach any value. The source's own
\* entry is never read by the searches (they skip the poles).
PprOutcomes(H, source) ==
    LET nodes == Range(H.nodes)
        reach == ReachFrom(H, {source}) \ {source}
    IN {[n \in nodes |-> IF n = source THEN MaxRel
                         ELSE IF n \in reach THEN f[n] ELSE 0] :
            f \in [reach -> 0..MaxRel]}

-----------------------------------------------------------------------------
(* Axis selection *)

\* name_low in ax_low: the name is one of the axis identifier's tokens
Contains(ax, name) == \E i \in 1..Len(ax) : Lower(ax[i]) = Lower(name)

elegir_axes_filtro_equilibrio(g, a, b, axis_only, exclude_auto_dualidad) ==
    IF axis_only # NoAxis THEN {axis_only}
    ELSE normalize_axis_set(axes_de_nodo(g, a), exclude_auto_dualidad)
         \cap normalize_axis_set(axes_de_nodo(g, b), exclude_auto_dualidad)

\* the axes of eq that name eq and one of the poles
Familia(axes_eq, a, b, eq) ==
    {ax \in axes_eq : Contains(ax, eq) /\ (Contains(ax, a) \/ Contains(ax, b))}

familia_axes_desde_eq(g, a, b, eq, axis_only, exclude_auto_dualidad) ==
    LET axes_eq == normalize_axis_set(axes_de_nodo(g, eq), exclude_auto_dualidad)
        familia == Familia(axes_eq, a, b, eq)
    IN IF axis_only # NoAxis
       THEN IF familia # {} THEN familia
            ELSE IF axes_eq # {} THEN axes_eq
            ELSE {axis_only}
       ELSE axes_eq

elegir_axes_filtro_sintesis(g, a, b, eq, axis_only, exclude_auto_dualidad) ==
    LET axes_a == normalize_axis_set(axes_de_nodo(g, a), exclude_auto_dualidad)
        axes_b == normalize_axis_set(axes_de_nodo(g, b), exclude_auto_dualidad)
        axes_eq == normalize_axis_set(axes_de_nodo(g, eq), exclude_auto_dualidad)
        familia == Familia(axes_eq, a, b, eq)
    IN IF axis_only # NoAxis
       THEN IF familia # {} THEN familia
            ELSE IF axes_eq # {} THEN axes_eq
            ELSE {axis_only}
       ELSE IF axes_a \cap axes_b # {} THEN axes_a \cap axes_b
       ELSE axes_eq

-----------------------------------------------------------------------------
(* Stability and rules *)

\* RatioInf with the guard s2 == 0 in place of line 198's s2 > 0
RatioInf_OnlyZero(s2) == s2 = 0

\* ratio = (s1 / s2) if s2 > 0 else float("inf"), as a fraction
RatioInf(s2) == ~(s2 > 0)

\* ratio < ratio_min, ratio_min in hundredths
RatioLow(s1, s2, ratio_min) == ~RatioInf(s2) /\ s1 * 100 < ratio_min * s2

\* bal = abs(pa1 - pb1) / denom if denom > 0 else 1.0, as a fraction
BalNum(pa1, pb1) == IF pa1 + pb1 > 0 THEN Abs(pa1 - pb1) ELSE 1
BalDen(pa1, pb1) == IF pa1 + pb1 > 0 THEN pa1 + pb1 ELSE 1

\* bal > balance_max, balance_max in hundredths
BalHigh(pa1, pb1, balance_max) ==
    BalNum(pa1, pb1) * 100 > balance_max * BalDen(pa1, pb1)

\* top1, top2: <<>> for None, <<t>> for a candidate t
estabilidad_equilibrio(top1, top2, ratio_min, balance_max) ==
    IF top1 = <<>>
    THEN [ok |-> FALSE, razones |-> <<"sin resultados">>, stats |-> {}]
    ELSE LET s1 == top1[1].score
             pa1 == top1[1].va
             pb1 == top1[1].vb
             r1 == IF top2 # <<>> /\ RatioLow(s1, top2[1].score, ratio_min)
                   THEN <<"ratio bajo">> ELSE <<>>
             r2 == IF BalHigh(pa1, pb1, balance_max)
                   THEN <<"desbalance alto">> ELSE <<>>
             razones == r1 \o r2
         IN [ok |-> Len(razones) = 0,
             razones |-> razones,
             stats |-> {"score_top1", "balance"}
                       \cup (IF top2 # <<>> THEN {"score_top2", "ratio"} ELSE {})]

\* axis_scope: <<>> for None, <<S>> for the set S
InScope(d, axis_scope) ==
    \/ axis_scope = <<>>
    \/ d.axis # NoAxis /\ d.axis \in axis_scope[1]

\* es_polo_de_dualidad without the loop over the incoming edges (216-219)
es_polo_de_dualidad_OutOnly(g, cand, axis_scope) ==
    \E d \in g.edges : d.u = cand /\ d.tipo = "dualidad" /\ InScope(d, axis_scope)

es_polo_de_dualidad(g, cand, axis_scope) ==
    \/ \E d \in g.edges : d.u = cand /\ d.tipo = "dualidad" /\ InScope(d, axis_scope)
    \/ \E d \in g.edges : d.v = cand /\ d.tipo = "dualidad" /\ InScope(d, axis_scope)

-----------------------------------------------------------------------------
(* Diffraction core *)

\* list.sort(key=score, reverse=True): stable, descending
RECURSIVE InsertDesc(_, _)
InsertDesc(sorted, x) ==
    IF sorted = <<>> THEN <<x>>
    ELSE IF Head(sorted).score >= x.score
         THEN <<Head(sorted)>> \o InsertDesc(Tail(sorted), x)
         ELSE <<x>> \o sorted

RECURSIVE SortDesc(_)
SortDesc(s) ==
    IF s = <<>> THEN <<>>
    ELSE InsertDesc(SortDesc(SubSeq(s, 1, Len(s) - 1)), s[Len(s)])

\* str(n).lower() in {x.lower() for x in EXCLUIR_NODOS_DEFAULT}
DenyListed(n) == Lower(n) \in {Lower(x) : x \in EXCLUIR_NODOS_DEFAULT}

\* the axis test with an empty filter excluding every node ("and axes_filtro"
\* dropped from lines 274, 314)
PassesAxisFilter_EmptyStrict(g, n, usar_filtro_axis, axes_filtro, exclude_auto_dualidad) ==
    IF usar_filtro_axis
    THEN normalize_axis_set(axes_de_nodo(g, n), exclude_auto_dualidad)
         \cap axes_filtro # {}
    ELSE TRUE

\* the axis test of both searches: the node passes the filter
PassesAxisFilter(g, n, usar_filtro_axis, axes_filtro, exclude_auto_dualidad) ==
    IF usar_filtro_axis /\ axes_filtro # {}
    THEN normalize_axis_set(axes_de_nodo(g, n), exclude_auto_dualidad)
         \cap axes_filtro # {}
    ELSE TRUE

SharedAxes(g, n, usar_filtro_axis, axes_filtro, exclude_auto_dualidad) ==
    IF usar_filtro_axis /\ axes_filtro # {}
    THEN normalize_axis_set(axes_de_nodo(g, n), exclude_auto_dualidad)
         \cap axes_filtro
    ELSE {}

\* EqScore with the penalty added instead of subtracted
EqScore_PenaltyAdded(va, vb, lambda10) == 10 * (va + vb) + lambda10 * Abs(va - vb)

\* score10 = 10 * ((va + vb) - lambda_balance * abs(va - vb))
EqScore(va, vb, lambda10) == 10 * (va + vb) - lambda10 * Abs(va - vb)

\* EqIsPole testing a alone: if n == a: continue
EqIsPole_OnlyA(n, a, b) == n = a

\* if n in (a, b): continue
EqIsPole(n, a, b) == n = a \/ n = b

EqKeeps(g, n, a, b, excluir_tipos, uf, af, ead) ==
    /\ ~EqIsPole(n, a, b)
    /\ ~DenyListed(n)
    /\ tipo_nodo(g, n) \notin excluir_tipos
    /\ PassesAxisFilter(g, n, uf, af, ead)

\* lines 253-258: what buscar_equilibrios raises before any call of ppr
EqPrecheck(g, a0, b0, modo) ==
    LET a == resolve_node(g, a0)
        b == resolve_node(g, b0)
        H == build_propagation_graph(g, modo, TRUE)
    IN IF H.err # "ok" THEN H.err
       ELSE IF a \notin Range(H.nodes) \/ b \notin Range(H.nodes)
       THEN "PoleNotFound"
       ELSE "ok"

\* c: [modo, lambda10, excluir_tipos, usar_filtro_axis, axes_filtro,
\*     exclude_auto_dualidad, top_k]; ra, rb: what ppr returns for a and for b
buscar_equilibrios(g, a0, b0, c, ra, rb) ==
    LET a == resolve_node(g, a0)
        b == resolve_node(g, b0)
        H == build_propagation_graph(g, c.modo, TRUE)
        Keep(n) == EqKeeps(g, n, a, b, c.excluir_tipos, c.usar_filtro_axis,
                           c.axes_filtro, c.exclude_auto_dualidad)
        kept == SelectSeq(H.nodes, Keep)
        results == [i \in 1..Len(kept) |->
                      [n |-> kept[i],
                       score |-> EqScore(ra[kept[i]], rb[kept[i]], c.lambda10),
                       va |-> ra[kept[i]],
                       vb |-> rb[kept[i]],
                       t |-> tipo_nodo(g, kept[i]),
                       shared_axes |-> SharedAxes(g, kept[i], c.usar_filtro_axis,
                                          c.axes_filtro, c.exclude_auto_dualidad)]]
    IN IF EqPrecheck(g, a0, b0, c.modo) # "ok"
       THEN [err |-> EqPrecheck(g, a0, b0, c.modo), list |-> <<>>]
       ELSE [err |-> "ok", list |-> Take(SortDesc(results), c.top_k)]

\* score10 = 10 * ((va+vb+ve) - lambda_balance * (|va-vb| + |va-ve| + |vb-ve|))
SintScore(va, vb, ve, lambda10) ==
    10 * (va + vb + ve) - lambda10 * (Abs(va - vb) + Abs(va - ve) + Abs(vb - ve))

\* if n in (a, b, eq): continue
SintIsSource(n, a, b, eq) == n = a \/ n = b \/ n = eq

SintKeeps(g, n, a, b, eq, uf, af, ead) ==
    /\ ~SintIsSource(n, a, b, eq)
    /\ ~DenyListed(n)
    /\ PassesAxisFilter(g, n, uf, af, ead)

\* lines 296-303: what buscar_sintesis raises before any call of ppr
SintPrecheck(g, a0, b0, eq0, modo) ==
    LET a == resolve_node(g, a0)
        b == resolve_node(g, b0)
        eq == resolve_node(g, eq0)
        H == build_propagation_graph(g, modo, TRUE)
    IN IF H.err # "ok" THEN H.err
       ELSE IF \E x \in {a, b, eq} : x \notin Range(H.nodes)
       THEN "NodeNotFound"
       ELSE "ok"

buscar_sintesis(g, a0, b0, eq0, c, ra, rb, re) ==
    LET a == resolve_node(g, a0)
        b == resolve_node(g, b0)
        eq == resolve_node(g, eq0)
        H == build_propagation_graph(g, c.modo, TRUE)
        Keep(n) == SintKeeps(g, n, a, b, eq, c.usar_filtro_axis,
                             c.axes_filtro, c.exclude_auto_dualidad)
        kept == SelectSeq(H.nodes, Keep)
        results == [i \in 1..Len(kept) |->
                      [n |-> kept[i],
                       score |-> SintScore(ra[kept[i]], rb[kept[i]], re[kept[i]],
                                           c.lambda10),
                       va |-> ra[kept[i]],
                       vb |-> rb[kept[i]],
                       ve |-> re[kept[i]],
                       t |-> tipo_nodo(g, kept[i]),
                       shared_axes |-> SharedAxes(g, kept[i], c.usar_filtro_axis,
                                          c.axes_filtro, c.exclude_auto_dualidad)]]
    IN IF SintPrecheck(g, a0, b0, eq0, c.modo) # "ok"
       THEN [err |-> SintPrecheck(g, a0, b0, eq0, c.modo), list |-> <<>>]
       ELSE [err |-> "ok", list |-> Take(SortDesc(results), c.top_k)]

-----------------------------------------------------------------------------
(* Values of the variables a specification does not use *)

NoGraph == [nodes |-> <<>>, attrs |-> <<>>, edges |-> {}]
NoVerdict == [ok |-> FALSE, razones |-> <<>>, stats |-> {}]

MainIdle ==
    /\ args = <<>>
    /\ pa = <<>> /\ pb = <<>> /\ pe = <<>>
    /\ eq1 = <<>> /\ v1 = NoVerdict
    /\ eq2 = <<>> /\ v2 = NoVerdict
    /\ eq_final = <<>> /\ axes_filtro_final = {} /\ axes_filtro_s = {}
    /\ sints = <<>> /\ reported = <<>> /\ log = <<>>

MainUnchanged ==
    UNCHANGED <<args, eq1, v1, eq2, v2, eq_final, axes_filtro_final,
                axes_filtro_s, sints, reported, log>>

-----------------------------------------------------------------------------
(* build_propagation_graph called on its own: every graph, mode and flag *)

MaxEdges == 2

\* node attributes: tipo_global, tipo, roles
Attr(tg, t, roles) == [tipo_global |-> tg, tipo |-> t, roles |-> roles]

BuildNodes == <<"hot", "warm", "cold", "metal">>

\* the node pairs an input graph may join, in order
BuildPairs == <<<<"hot", "warm">>, <<"warm", "cold">>, <<"cold", "metal">>, <<"metal", "hot">>>>

EdgeTipos == {"embedding", None, "dualidad", "relacion"}

\* weights in hundredths: 0, 0.1, 0.3 and 7.0
EdgeWeights == {0, 10, 30, 700}

\* the edges a pair may carry: with a weight, or with none (the default applies)
EdgesOn(p) ==
    {[u |-> p[1], v |-> p[2], tipo |-> t, axis |-> NoAxis, weight |-> w] :
        t \in EdgeTipos, w \in EdgeWeights}
    \cup {[u |-> p[1], v |-> p[2], tipo |-> t, axis |-> NoAxis] : t \in EdgeTipos}

\* every choice of at most one edge on each of the first k pairs
RECURSIVE EdgeSets(_)
EdgeSets(k) ==
    IF k = 0 THEN {{}}
    ELSE LET rest == EdgeSets(k - 1)
         IN rest \cup {es \cup {e} : es \in rest, e \in EdgesOn(BuildPairs[k])}

BuildGraphs ==
    {[nodes |-> BuildNodes,
      attrs |-> [n \in Range(BuildNodes) |-> Attr("", "", {})],
      edges |-> es] : es \in EdgeSets(MaxEdges)}

BuildModes == ValidModes \cup {"otro"}

InitBuild ==
    /\ G \in BuildGraphs
    /\ call \in [modo : BuildModes, usar_pesos : BOOLEAN]
    /\ pc = "call"
    /\ ret = <<>>
    /\ MainIdle

CallBuild ==
    /\ pc = "call"
    /\ ret' = build_propagation_graph(G, call.modo, call.usar_pesos)
    /\ pc' = "returned"
    /\ UNCHANGED <<G, call, pa, pb, pe>>
    /\ MainUnchanged

NextBuild == CallBuild

SpecBuild == InitBuild /\ [][NextBuild]_vars

-----------------------------------------------------------------------------
(* The graphs of the searches *)

MaxCand == 2

axT == <<"eje", "temperatura">>
axAuto == <<"eje", "dualidad_auto", "hot", "cold">>

\* the candidate nodes a graph may hold, in the graph's node order
CandOrder == <<"warm", "metal", "acero", "cobre">>

\* the poles, then the first k candidates, then a node of the deny-list
SearchNodes(poles, k) == poles \o Take(CandOrder, k) \o <<"Futuro">>

SearchAttr(n, rolesB, rolesW, tgW) ==
    CASE n \in {"hot", "Hot", "HOT"} -> Attr("", "", {axT, axAuto})
      [] n = "cold" -> Attr("", "", rolesB)
      [] n = "warm" -> Attr(tgW, "", rolesW)
      [] n = "metal" -> Attr("", "concepto", {})
      [] n = "tibio" -> Attr("", "sintesis", {axT})
      [] OTHER -> Attr("", "", {axT})

\* no edge, or an edge of the one kind from every node to every other node
\* that is no pole and not the deny-listed node
SearchEdges(nodes, kind) ==
    IF kind = "none" THEN {}
    ELSE {[u |-> u, v |-> v, tipo |-> kind, axis |-> NoAxis, weight |-> 100] :
            u \in Range(nodes) \ {"Futuro"},
            v \in Range(nodes) \ {"hot", "HOT", "cold", "Futuro"}}
         \ {[u |-> n, v |-> n, tipo |-> kind, axis |-> NoAxis, weight |-> 100] :
            n \in Range(nodes)}

EdgeKinds == {"none", "relacion", "embedding"}

SearchGraph(poles, k, rolesB, rolesW, tgW, kind) ==
    [nodes |-> SearchNodes(poles, k),
     attrs |-> [n \in Range(SearchNodes(poles, k)) |-> SearchAttr(n, rolesB, rolesW, tgW)],
     edges |-> SearchEdges(SearchNodes(poles, k), kind)]

-----------------------------------------------------------------------------
(* buscar_equilibrios and buscar_sintesis called on their own *)

\* ratio_min and balance_max of the command line, and one other value each
RatioMinDefault == 135
BalanceMaxDefault == 80
RatioMins == {RatioMinDefault, 50}
BalanceMaxs == {BalanceMaxDefault, 30}

\* lambda_balance in tenths: 0, the default 0.6, and 2.0
LambdaDefault == 6
Lambdas == {0, LambdaDefault, 20}

TopKEq == 40
TopKSint == 20
LambdaSint == 5
ExcluirTiposDefault == {"emergente", "sintesis"}

\* the keyword arguments of a search
SearchArgs(modo, lambda10, uf, af, ead, top_k) ==
    [modo |-> modo, lambda10 |-> lambda10, excluir_tipos |-> ExcluirTiposDefault,
     usar_filtro_axis |-> uf, axes_filtro |-> af,
     exclude_auto_dualidad |-> ead, top_k |-> top_k]

\* a call of buscar_equilibrios with the filter main gives pass 1
EqCall(g, a0, b0, modo, lambda10, uf, axis_only, ead, top_k) ==
    [fn |-> "buscar_equilibrios", a |-> a0, b |-> b0, eq |-> None,
     axis_only |-> axis_only,
     c |-> SearchArgs(modo, lambda10, uf,
              elegir_axes_filtro_equilibrio(g, resolve_node(g, a0),
                  resolve_node(g, b0), axis_only, ead),
              ead, top_k)]

\* a call of buscar_sintesis with the filter main gives it
SintCall(g, a0, b0, eq0, modo, uf, axis_only, ead) ==
    [fn |-> "buscar_sintesis", a |-> a0, b |-> b0, eq |-> eq0,
     axis_only |-> axis_only,
     c |-> SearchArgs(modo, LambdaSint, uf,
              elegir_axes_filtro_sintesis(g, resolve_node(g, a0),
                  resolve_node(g, b0), eq0, axis_only, ead),
              ead, TopKSint)]

\* names and modes: poles given in another case or absent, every mode
InitNames ==
    \E poles \in {<<"Hot", "cold">>, <<"HOT", "Hot", "cold">>}, kind \in EdgeKinds,
       a0 \in {"Hot", "hot", "ghost"}, b0 \in {"cold", "Cold", "ghost"},
       modo \in BuildModes :
        /\ G = SearchGraph(poles, 1, {axT, axAuto}, {axT}, "", kind)
        /\ \/ call = EqCall(G, a0, b0, modo, LambdaDefault, TRUE, NoAxis, FALSE, TopKEq)
           \/ \E eq0 \in {"warm", "ghost"} :
                 call = SintCall(G, a0, b0, eq0, modo, TRUE, NoAxis, FALSE)

\* filters, exclusions and scores: up to MaxCand candidates
InitFilters ==
    \E k \in 0..MaxCand, kind \in EdgeKinds,
       rolesB \in {{axT, axAuto}, {axAuto}}, rolesW \in {{axT}, {axAuto}, {}},
       tgW \in {"", "Emergente"}, modo \in {"estructura", "mixto"},
       uf \in BOOLEAN, axis_only \in {NoAxis, axAuto}, ead \in BOOLEAN :
        /\ G = SearchGraph(<<"hot", "cold">>, k, rolesB, rolesW, tgW, kind)
        /\ \/ \E l \in Lambdas, top_k \in {TopKEq, 1} :
                 call = EqCall(G, "hot", "cold", modo, l, uf, axis_only, ead, top_k)
           \/ call = SintCall(G, "hot", "cold", "warm", modo, uf, axis_only, ead)

InitSearch ==
    /\ InitNames \/ InitFilters
    /\ pc = "call"
    /\ ret = <<>>
    /\ MainIdle

CallEquilibrios ==
    /\ pc = "call"
    /\ call.fn = "buscar_equilibrios"
    /\ IF EqPrecheck(G, call.a, call.b, call.c.modo) = "ok"
       THEN LET H == build_propagation_graph(G, call.c.modo, TRUE)
            IN \E ra \in PprOutcomes(H, resolve_node(G, call.a)),
                  rb \in PprOutcomes(H, resolve_node(G, call.b)) :
                   /\ pa' = ra
                   /\ pb' = rb
                   /\ ret' = buscar_equilibrios(G, call.a, call.b, call.c, ra, rb)
       ELSE /\ ret' = buscar_equilibrios(G, call.a, call.b, call.c, pa, pb)
            /\ UNCHANGED <<pa, pb>>
    /\ pc' = "returned"
    /\ UNCHANGED <<G, call, pe>>
    /\ MainUnchanged

CallSintesis ==
    /\ pc = "call"
    /\ call.fn = "buscar_sintesis"
    /\ IF SintPrecheck(G, call.a, call.b, call.eq, call.c.modo) = "ok"
       THEN LET H == build_propagation_graph(G, call.c.modo, TRUE)
            IN \E ra \in PprOutcomes(H, resolve_node(G, call.a)),
                  rb \in PprOutcomes(H, resolve_node(G, call.b)),
                  re \in PprOutcomes(H, resolve_node(G, call.eq)) :
                   /\ pa' = ra
                   /\ pb' = rb
                   /\ pe' = re
                   /\ ret' = buscar_sintesis(G, call.a, call.b, call.eq, call.c,
                                             ra, rb, re)
       ELSE /\ ret' = buscar_sintesis(G, call.a, call.b, call.eq, call.c,
                                      pa, pb, pe)
            /\ UNCHANGED <<pa, pb, pe>>
    /\ pc' = "returned"
    /\ UNCHANGED <<G, call>>
    /\ MainUnchanged

NextSearch == CallEquilibrios \/ CallSintesis

SpecSearch == InitSearch /\ [][NextSearch]_vars

-----------------------------------------------------------------------------
(* estabilidad_equilibrio called on its own *)

\* a candidate as buscar_equilibrios scores it, or None
AssessTops(n, lambda10) ==
    {<<>>} \cup {<<[n |-> n, score |-> EqScore(x, y, lambda10), va |-> x, vb |-> y]>> :
                    x \in 0..MaxRel, y \in 0..MaxRel}

AssessCalls ==
    UNION {[top1 : AssessTops("warm", l), top2 : AssessTops("metal", l),
            ratio_min : RatioMins, balance_max : BalanceMaxs] : l \in Lambdas}

InitAssess ==
    /\ G = NoGraph
    /\ call \in AssessCalls
    /\ pc = "call"
    /\ ret = <<>>
    /\ MainIdle

CallAssess ==
    /\ pc = "call"
    /\ ret' = estabilidad_equilibrio(call.top1, call.top2, call.ratio_min,
                                     call.balance_max)
    /\ pc' = "returned"
    /\ UNCHANGED <<G, call, pa, pb, pe>>
    /\ MainUnchanged

NextAssess == CallAssess

SpecAssess == InitAssess /\ [][NextAssess]_vars

-----------------------------------------------------------------------------
(* main: the pipeline *)

TopDefault == 12
ReportedRejected == 9
ReportedTop == 10

axFam == <<"eje", "hot", "warm">>
axU == <<"eje", "humedad">>

\* the poles, the first k candidates, a node of tipo sintesis, a deny-listed
\* node
MainNodes(k) == <<"hot", "cold">> \o Take(CandOrder, k) \o <<"tibio", "Futuro">>

\* hot and cold reach warm, metal and acero, warm and metal reach each other;
\* with a duality, tibio and metal are its two poles, on the axis given
MainEdges(nodes, dualAxis) ==
    {d \in {[u |-> "hot", v |-> "warm", tipo |-> "relacion", axis |-> NoAxis],
            [u |-> "cold", v |-> "warm", tipo |-> "relacion", axis |-> NoAxis],
            [u |-> "hot", v |-> "metal", tipo |-> "relacion", axis |-> NoAxis],
            [u |-> "cold", v |-> "metal", tipo |-> "relacion", axis |-> NoAxis],
            [u |-> "hot", v |-> "acero", tipo |-> "relacion", axis |-> NoAxis],
            [u |-> "cold", v |-> "acero", tipo |-> "relacion", axis |-> NoAxis],
            [u |-> "warm", v |-> "metal", tipo |-> "relacion", axis |-> NoAxis],
            [u |-> "metal", v |-> "warm", tipo |-> "relacion", axis |-> NoAxis]}
          \cup {[u |-> "tibio", v |-> "metal", tipo |-> "dualidad", axis |-> ax] :
                   ax \in dualAxis} :
        d.u \in Range(nodes) /\ d.v \in Range(nodes)}

MainGraph(k, rolesB, rolesW, dualAxis) ==
    [nodes |-> MainNodes(k),
     attrs |-> [n \in Range(MainNodes(k)) |->
                  IF n = "tibio" THEN Attr("", "sintesis", {axT})
                  ELSE SearchAttr(n, rolesB, rolesW, "")],
     edges |-> MainEdges(MainNodes(k), dualAxis)]

MainArgs ==
    [a : {"hot"}, b : {"cold"}, modo : {"estructura"},
     lambda10 : {LambdaDefault}, top : {TopDefault},
     sintesis : BOOLEAN, no_axis : BOOLEAN, axis_only : {NoAxis, axT},
     exclude_auto_dualidad : BOOLEAN,
     ratio_min : {RatioMinDefault}, balance_max : {BalanceMaxDefault},
     reject_sintesis_if_polo : BOOLEAN, refine : BOOLEAN]

Init ==
    /\ \E k \in 0..MaxCand, rolesB \in {{axT, axAuto}, {axAuto}},
          rolesW \in {{axT, axFam}, {axAuto}, {}},
          dualAxis \in {{}, {axT}, {axU}} :
            G = MainGraph(k, rolesB, rolesW, dualAxis)
    /\ \/ args \in MainArgs /\ (args.reject_sintesis_if_polo => args.sintesis)
       \/ \E x \in MainArgs : args = [x EXCEPT !.a = "ghost"] /\ x.refine /\ x.sintesis
    /\ pc = "start"
    /\ pa = <<>> /\ pb = <<>> /\ pe = <<>>
    /\ eq1 = <<>> /\ v1 = NoVerdict
    /\ eq2 = <<>> /\ v2 = NoVerdict
    /\ eq_final = <<>> /\ axes_filtro_final = {} /\ axes_filtro_s = {}
    /\ sints = <<>> /\ reported = <<>> /\ log = <<>>
    /\ call = <<>> /\ ret = <<>>

\* lines 375-376, 378
MainA == resolve_node(G, args.a)
MainB == resolve_node(G, args.b)
usar_filtro_axis == ~args.no_axis

\* line 386
axes_filtro_1 ==
    elegir_axes_filtro_equilibrio(G, MainA, MainB, args.axis_only,
                                  args.exclude_auto_dualidad)

\* the keyword arguments of the two calls of buscar_equilibrios
MainEqArgs(uf, af) ==
    SearchArgs(args.modo, args.lambda10, uf, af, args.exclude_auto_dualidad,
               Max(TopKEq, args.top))

\* top1 = l[0] if len(l) else None; top2 = l[1] if len(l) > 1 else None
Top1(l) == Take(l, 1)
Top2(l) == Slice(l, 1, 2)

\* lines 403-418: pass 1 and its verdict; a raised error ends the run
Pass1 ==
    /\ pc = "start"
    /\ IF EqPrecheck(G, MainA, MainB, args.modo) # "ok"
       THEN /\ pc' = "error"
            /\ log' = Append(log, EqPrecheck(G, MainA, MainB, args.modo))
            /\ UNCHANGED <<pa, pb, eq1, v1>>
       ELSE LET H == build_propagation_graph(G, args.modo, TRUE)
            IN \E ra \in PprOutcomes(H, MainA), rb \in PprOutcomes(H, MainB) :
                 LET l == buscar_equilibrios(G, MainA, MainB,
                              MainEqArgs(usar_filtro_axis, axes_filtro_1), ra, rb).list
                 IN /\ pa' = ra
                    /\ pb' = rb
                    /\ eq1' = l
                    /\ v1' = estabilidad_equilibrio(Top1(l), Top2(l),
                                 args.ratio_min, args.balance_max)
                    /\ pc' = "pass1_done"
                    /\ log' = Append(log, "pass1")
    /\ UNCHANGED <<G, args, pe, eq2, v2, eq_final, axes_filtro_final,
                   axes_filtro_s, sints, reported, call, ret>>

\* line 432 without "and top1 is not None"
RefineGuard_NoTopCheck(refine, ok1, top1) == refine /\ ~ok1

\* line 432: if args.refine and (not ok1) and top1 is not None
RefineGuard(refine, ok1, top1) == refine /\ ~ok1 /\ top1 # <<>>

\* lines 456, 464 without "if ok2"
Adopts_NonEmpty(l2, ok2) == l2 # <<>>

\* lines 456, 464: pass 2 is adopted
Adopts(l2, ok2) == l2 # <<>> /\ ok2

\* lines 430-469 with the guard true: pass 2, its verdict, the adoption
RefinePass ==
    /\ pc = "pass1_done"
    /\ RefineGuard(args.refine, v1.ok, Top1(eq1))
    /\ IF eq1 = <<>>
       THEN /\ pc' = "crash"
            /\ log' = Append(log, "TypeError: top1[0]")
            /\ UNCHANGED <<eq2, v2, eq_final, axes_filtro_final>>
       ELSE LET eq0 == eq1[1].n
                axes_filtro_2 ==
                    familia_axes_desde_eq(G, MainA, MainB, eq0, args.axis_only,
                                          args.exclude_auto_dualidad)
                l2 == buscar_equilibrios(G, MainA, MainB,
                          MainEqArgs(TRUE, axes_filtro_2), pa, pb).list
                verdict2 == estabilidad_equilibrio(Top1(l2), Top2(l2),
                                args.ratio_min, args.balance_max)
            IN /\ eq2' = l2
               /\ v2' = IF l2 = <<>> THEN v2 ELSE verdict2
               /\ eq_final' = IF Adopts(l2, verdict2.ok) THEN l2 ELSE eq1
               /\ axes_filtro_final' = IF Adopts(l2, verdict2.ok)
                                       THEN axes_filtro_2 ELSE axes_filtro_1
               /\ log' = log \o <<"refine",
                            IF l2 = <<>> THEN "pass2 sin resultados"
                            ELSE IF verdict2.ok THEN "adopta pass2"
                            ELSE "mantiene pass1">>
               /\ pc' = "refined"
    /\ UNCHANGED <<G, args, pa, pb, pe, eq1, v1, axes_filtro_s, sints,
                   reported, call, ret>>

\* lines 430-432 with the guard false: pass 1 is the final result
NoRefine ==
    /\ pc = "pass1_done"
    /\ ~RefineGuard(args.refine, v1.ok, Top1(eq1))
    /\ eq_final' = eq1
    /\ axes_filtro_final' = axes_filtro_1
    /\ pc' = "refined"
    /\ UNCHANGED <<G, args, pa, pb, pe, eq1, v1, eq2, v2, axes_filtro_s,
                   sints, reported, log, call, ret>>

\* line 472: if args.sintesis and eq_final
SintGuard(sintesis, l) == sintesis /\ l # <<>>

\* lines 472-499: the synthesis search on the final equilibrium
Synthesis ==
    /\ pc = "refined"
    /\ SintGuard(args.sintesis, eq_final)
    /\ IF eq_final = <<>>
       THEN /\ pc' = "crash"
            /\ log' = Append(log, "IndexError: eq_final[0]")
            /\ UNCHANGED <<pe, axes_filtro_s, sints>>
       ELSE LET eq == eq_final[1].n
                afs == elegir_axes_filtro_sintesis(G, MainA, MainB, eq,
                           args.axis_only, args.exclude_auto_dualidad)
                c == SearchArgs(args.modo, LambdaSint, usar_filtro_axis, afs,
                                args.exclude_auto_dualidad, TopKSint)
                H == build_propagation_graph(G, args.modo, TRUE)
            IN IF SintPrecheck(G, MainA, MainB, eq, args.modo) # "ok"
               THEN /\ pc' = "error"
                    /\ log' = Append(log, SintPrecheck(G, MainA, MainB, eq, args.modo))
                    /\ UNCHANGED <<pe, axes_filtro_s, sints>>
               ELSE \E re \in PprOutcomes(H, eq) :
                      LET l == buscar_sintesis(G, MainA, MainB, eq, c, pa, pb, re).list
                      IN /\ pe' = re
                         /\ axes_filtro_s' = afs
                         /\ sints' = l
                         /\ log' = log \o (IF l = <<>>
                                           THEN <<"sintesis", "sin resultados de sintesis">>
                                           ELSE <<"sintesis">>)
                         /\ pc' = IF l = <<>> THEN "done" ELSE "synth_done"
    /\ UNCHANGED <<G, args, pa, pb, eq1, v1, eq2, v2, eq_final,
                   axes_filtro_final, reported, call, ret>>

\* line 472 with the guard false: main ends
NoSynthesis ==
    /\ pc = "refined"
    /\ ~SintGuard(args.sintesis, eq_final)
    /\ pc' = "done"
    /\ UNCHANGED <<G, args, pa, pb, pe, eq1, v1, eq2, v2, eq_final,
                   axes_filtro_final, axes_filtro_s, sints, reported, log,
                   call, ret>>

\* line 503: the top synthesis candidate is rejected
Rejects(reject, g, top_s, afs) ==
    reject /\ es_polo_de_dualidad(g, top_s, IF afs # {} THEN <<afs>> ELSE <<>>)

\* lines 501-514: the rejection rule and the list printed
Report ==
    /\ pc = "synth_done"
    /\ IF sints = <<>>
       THEN /\ pc' = "crash"
            /\ log' = Append(log, "IndexError: sints[0]")
            /\ UNCHANGED reported
       ELSE /\ reported' = IF Rejects(args.reject_sintesis_if_polo, G, sints[1].n,
                                      axes_filtro_s)
                           THEN Slice(sints, 1, ReportedRejected)
                           ELSE Slice(sints, 0, ReportedTop)
            /\ log' = log
                 \o (IF args.reject_sintesis_if_polo THEN <<"es_polo_de_dualidad">> ELSE <<>>)
                 \o (IF Rejects(args.reject_sintesis_if_polo, G, sints[1].n,
                                axes_filtro_s)
                     THEN <<"rechazada">> ELSE <<"top sintesis">>)
            /\ pc' = "done"
    /\ UNCHANGED <<G, args, pa, pb, pe, eq1, v1, eq2, v2, eq_final,
                   axes_filtro_final, axes_filtro_s, sints, call, ret>>

Next == Pass1 \/ RefinePass \/ NoRefine \/ Synthesis \/ NoSynthesis \/ Report

Spec == Init /\ [][Next]_vars

-----------------------------------------------------------------------------
(* Claims about build_propagation_graph, under SpecBuild *)

\* C6: build_propagation_graph fails with InvalidConfiguration for every
\* mode other than estructura/mixto/todo, for every input graph, a graph
\* without edges included, and returns no propagation graph then.
CE_C6_InvalidModeAlwaysFails ==
    (pc = "returned" /\ call.modo \notin {"estructura", "mixto", "todo"})
        => ret.err = "InvalidConfiguration"

\* C9: every edge of the graph build_propagation_graph returns has a weight
\* within [0.05, 5.0] when usar_pesos is true and exactly 1.0 when it is
\* false; with usar_pesos, an embedding edge in mode mixto ends within
\* [0.05, 0.2]. (Weights in hundredths.)
Thm_C9_WeightInvariant ==
    (pc = "returned" /\ ret.err = "ok") =>
        \A e \in ret.edges :
            /\ call.usar_pesos => (5 <= e.weight /\ e.weight <= 500)
            /\ ~call.usar_pesos => e.weight = 100
            /\ (call.usar_pesos /\ call.modo = "mixto" /\ e.tipo = "embedding")
                   => e.weight <= 20

\* a mixto build with weights that capped an embedding edge of weight 7.0 to
\* 0.2 and raised another edge of weight 0 to 0.05
Wit_C9_WeightInvariant ==
    /\ pc = "returned" /\ ret.err = "ok"
    /\ call.usar_pesos /\ call.modo = "mixto"
    /\ \E d \in G.edges, e \in ret.edges :
          /\ d.tipo = "embedding" /\ "weight" \in DOMAIN d /\ d.weight = 700
          /\ e.u = d.u /\ e.v = d.v /\ e.weight = 20
    /\ \E d \in G.edges, e \in ret.edges :
          /\ "weight" \in DOMAIN d /\ d.weight = 0
          /\ e.u = d.u /\ e.v = d.v /\ e.weight = 5

-----------------------------------------------------------------------------
(* Claims about estabilidad_equilibrio, under SpecAssess *)

\* C3 as stated: for a present top1, with a top2 the reason "ratio too low"
\* is given exactly when score(top1)/score(top2) < ratio_min, the ratio being
\* +infinity only for score(top2) = 0 (so it is the quotient for a negative
\* score(top2) too); the balance reason is given exactly when
\* balance > balance_max (balance 1.0 for a zero denominator); and the
\* verdict is stable iff no reason was given.
CE_C3_RatioForEveryTop2Score ==
    (pc = "returned" /\ call.top1 # <<>>) =>
        LET s1 == call.top1[1].score
            x == call.top1[1].va
            y == call.top1[1].vb
            s2 == call.top2[1].score
            quotientLow == \/ s2 > 0 /\ 100 * s1 < call.ratio_min * s2
                           \/ s2 < 0 /\ 100 * s1 > call.ratio_min * s2
            balanceHigh == IF x + y = 0 THEN 100 > call.balance_max
                           ELSE 100 * (IF x > y THEN x - y ELSE y - x)
                                    > call.balance_max * (x + y)
        IN /\ ("ratio bajo" \in Range(ret.razones))
                  <=> (call.top2 # <<>> /\ quotientLow)
           /\ ("desbalance alto" \in Range(ret.razones)) <=> balanceHigh
           /\ ret.ok <=> (ret.razones = <<>>)

\* C3 as amended: the ratio is score(top1)/score(top2) for a positive
\* score(top2) and +infinity for score(top2) <= 0, so the ratio reason is
\* given exactly when a top2 exists, score(top2) > 0 and
\* score(top1)/score(top2) < ratio_min; the balance reason exactly when
\* balance > balance_max; stable iff no reason was given.
Thm_C3_StabilityVerdict ==
    (pc = "returned" /\ call.top1 # <<>>) =>
        LET s1 == call.top1[1].score
            x == call.top1[1].va
            y == call.top1[1].vb
            s2 == call.top2[1].score
            quotientLow == s2 > 0 /\ 100 * s1 < call.ratio_min * s2
            balanceHigh == IF x + y = 0 THEN 100 > call.balance_max
                           ELSE 100 * (IF x > y THEN x - y ELSE y - x)
                                    > call.balance_max * (x + y)
        IN /\ ("ratio bajo" \in Range(ret.razones))
                  <=> (call.top2 # <<>> /\ quotientLow)
           /\ ("desbalance alto" \in Range(ret.razones)) <=> balanceHigh
           /\ ret.ok <=> (ret.razones = <<>>)

\* a balanced top1 ahead of a top2 of negative score, found stable
Wit_C3_StabilityVerdict ==
    /\ pc = "returned"
    /\ call.top1 # <<>> /\ call.top2 # <<>>
    /\ call.top2[1].score < 0
    /\ call.top1[1].score > 0
    /\ ret.ok

-----------------------------------------------------------------------------
(* Claims about buscar_equilibrios and buscar_sintesis, under SpecSearch *)

\* the names of a ranked list, in order
NamesOf(list) == [i \in 1..Len(list) |-> list[i].n]

\* C2: the list buscar_equilibrios returns never holds the resolved pole A
\* or the resolved pole B, and the list buscar_sintesis returns never holds
\* resolved A, resolved B or the resolved equilibrium node.
Thm_C2_Exclusion ==
    (pc = "returned" /\ ret.err = "ok") =>
        /\ resolve_node(G, call.a) \notin Range(NamesOf(ret.list))
        /\ resolve_node(G, call.b) \notin Range(NamesOf(ret.list))
        /\ call.fn = "buscar_sintesis"
              => resolve_node(G, call.eq) \notin Range(NamesOf(ret.list))

\* an equilibrium search over a graph in which both poles have relevance
\* (each its own restart mass) and that returned two candidates
Wit_C2_Exclusion ==
    /\ pc = "returned" /\ ret.err = "ok"
    /\ call.fn = "buscar_equilibrios"
    /\ Len(ret.list) = 2
    /\ pa[resolve_node(G, call.a)] > 0
    /\ pb[resolve_node(G, call.b)] > 0

\* C4: when axis filtering is active and the supplied filter normalizes to
\* the empty set under exclude_auto_dualidad (a filter holding only
\* auto-duality axes included), buscar_equilibrios excludes no node on axis
\* grounds: it returns what it returns with axis filtering disabled.
CE_C4_EmptyNormalizedFilterIsPermissive ==
    (/\ pc = "returned" /\ ret.err = "ok"
     /\ call.fn = "buscar_equilibrios"
     /\ call.c.usar_filtro_axis
     /\ {ax \in call.c.axes_filtro :
            ~(call.c.exclude_auto_dualidad /\ Len(ax) >= 3
              /\ ax[1] = "eje" /\ ax[2] = "dualidad_auto")} = {})
    => NamesOf(ret.list)
         = NamesOf(buscar_equilibrios(G, call.a, call.b,
                       [call.c EXCEPT !.usar_filtro_axis = FALSE], pa, pb).list)

\* the name has no case-insensitive match among the graph's nodes
\* (Lower is the case folding of the names)
NoMatch(g, name) == \A i \in 1..Len(g.nodes) : Lower(g.nodes[i]) # Lower(name)

\* C7: whenever a propagation graph is built (a valid mode, or no edge to
\* reject the mode at), buscar_equilibrios fails with PoleNotFound exactly
\* when pole A or pole B has no case-insensitive match among the nodes of
\* the input graph, whatever the mode and the edges it drops; it then has
\* computed no relevance vector and returns no list.
Thm_C7_PoleNotFound ==
    (pc = "returned" /\ call.fn = "buscar_equilibrios") =>
        /\ (ret.err = "PoleNotFound")
              <=> /\ call.c.modo \in {"estructura", "mixto", "todo"} \/ G.edges = {}
                  /\ NoMatch(G, call.a) \/ NoMatch(G, call.b)
        /\ ret.err = "PoleNotFound" => (ret.list = <<>> /\ pa = <<>> /\ pb = <<>>)

\* pole A given in another case and found, pole B absent, in a graph whose
\* edges the mode drops
Wit_C7_PoleNotFound ==
    /\ pc = "returned" /\ call.fn = "buscar_equilibrios"
    /\ ret.err = "PoleNotFound"
    /\ call.a = "hot" /\ ~InGraph(G, "hot") /\ ~NoMatch(G, "hot")
    /\ call.b = "ghost"
    /\ call.c.modo = "estructura" /\ \E d \in G.edges : d.tipo = "embedding"

\* n is more balanced than m at equal total relevance
MoreBalanced(n, m) ==
    /\ n.va + n.vb = m.va + m.vb
    /\ (IF n.va > n.vb THEN n.va - n.vb ELSE n.vb - n.va)
          < (IF m.va > m.vb THEN m.va - m.vb ELSE m.vb - m.va)

\* i such that list[i] is the node x (0 if none)
PosOf(list, x) ==
    IF \E i \in 1..Len(list) : list[i].n = x
    THEN CHOOSE i \in 1..Len(list) : list[i].n = x
    ELSE 0

\* C8: for two candidates n and m of the ranked list, of equal total
\* relevance and n the more balanced, score(n) >= score(m) for every
\* balance penalty >= 0 (strictly for a penalty > 0); and if n is ranked
\* ahead of m under the penalty of the call, it is ranked ahead of m under
\* every larger penalty (when the list holds both).
Thm_C8_BalanceMonotone ==
    (/\ pc = "returned" /\ ret.err = "ok"
     /\ call.fn = "buscar_equilibrios"
     /\ call.c.lambda10 >= 0)
    => \A i \in 1..Len(ret.list), j \in 1..Len(ret.list) :
          MoreBalanced(ret.list[i], ret.list[j]) =>
            /\ ret.list[i].score >= ret.list[j].score
            /\ call.c.lambda10 > 0 => ret.list[i].score > ret.list[j].score
            /\ i < j =>
                 \A l2 \in {l \in Lambdas : l >= call.c.lambda10} :
                    LET list2 == buscar_equilibrios(G, call.a, call.b,
                                    [call.c EXCEPT !.lambda10 = l2], pa, pb).list
                        i2 == PosOf(list2, ret.list[i].n)
                        j2 == PosOf(list2, ret.list[j].n)
                    IN (i2 > 0 /\ j2 > 0) => i2 < j2

\* a ranking under penalty 0 whose first candidate is more balanced than
\* its second at equal total relevance (equal scores, node order decides)
Wit_C8_BalanceMonotone ==
    /\ pc = "returned" /\ ret.err = "ok"
    /\ call.fn = "buscar_equilibrios"
    /\ call.c.lambda10 = 0
    /\ Len(ret.list) >= 2
    /\ MoreBalanced(ret.list[1], ret.list[2])

-----------------------------------------------------------------------------
(* Claims about main, under Spec *)

RefineDecided == pc \in {"refined", "synth_done", "done"}

\* C1: once the refine stage is over, the final equilibrium result is pass
\* 2's list exactly when refinement was requested, pass 1 was non-empty and
\* unstable, and pass 2 is non-empty and assessed stable; in every other case
\* the final result and its filter are those of pass 1.
Thm_C1_RefineAdoption ==
    RefineDecided =>
        IF /\ args.refine /\ eq1 # <<>> /\ ~v1.ok
           /\ eq2 # <<>>
           /\ estabilidad_equilibrio(Top1(eq2), Top2(eq2), args.ratio_min,
                                     args.balance_max).ok
        THEN eq_final = eq2
        ELSE eq_final = eq1 /\ axes_filtro_final = axes_filtro_1

Wit_C1_RefineAdoption ==
    /\ pc = "refined"
    /\ args.refine /\ eq1 # <<>> /\ ~v1.ok
    /\ eq2 # <<>> /\ v2.ok
    /\ eq2 # eq1
    /\ eq_final = eq2

\* the candidate has a dualidad edge, in either direction, whose axis is in
\* the filter, or any dualidad edge when the filter is empty
HasDualityEdge(cand, filter) ==
    \E d \in G.edges :
        /\ d.tipo = "dualidad"
        /\ d.u = cand \/ d.v = cand
        /\ filter = {} \/ d.axis \in filter

\* C5: when a non-empty synthesis list has been reported, if rejection is
\* enabled and the top candidate has a dualidad edge in the synthesis filter
\* (any dualidad edge when the filter is empty), the reported list is the
\* ranking without its head, in order, at most ReportedRejected - 1 long;
\* otherwise the reported list is the ranking from its head, at most
\* ReportedTop long.
Thm_C5_DualityRejection ==
    (pc = "done" /\ sints # <<>>) =>
        IF /\ args.reject_sintesis_if_polo
           /\ HasDualityEdge(sints[1].n, axes_filtro_s)
        THEN reported = Take(Tail(sints), ReportedRejected - 1)
        ELSE reported = Take(sints, ReportedTop) /\ reported[1] = sints[1]

Wit_C5_DualityRejection ==
    /\ pc = "done"
    /\ Len(sints) >= 2
    /\ args.reject_sintesis_if_polo
    /\ HasDualityEdge(sints[1].n, axes_filtro_s)
    /\ axes_filtro_s # {}
    /\ \E d \in G.edges : d.tipo = "dualidad" /\ d.v = sints[1].n
    /\ reported # <<>>
    /\ reported[1] = sints[2]

InLog(e) == \E i \in 1..Len(log) : log[i] = e

\* C10: when pass 1 returns the empty list, the verdict is unstable with the
\* one reason "sin resultados" and no statistics, neither the refine pass nor
\* the synthesis search runs, and main does not crash; when the synthesis
\* search returns the empty list, the rejection rule is not evaluated,
\* nothing is reported and main ends.
Thm_C10_EmptyResults ==
    /\ pc # "crash"
    /\ (pc \in {"pass1_done", "refined", "synth_done", "done"} /\ eq1 = <<>>) =>
          /\ v1 = [ok |-> FALSE, razones |-> <<"sin resultados">>, stats |-> {}]
          /\ ~InLog("refine") /\ eq2 = <<>>
          /\ ~InLog("sintesis") /\ sints = <<>>
          /\ pc # "synth_done"
    /\ InLog("sin resultados de sintesis") =>
          /\ sints = <<>>
          /\ pc = "done"
          /\ ~InLog("es_polo_de_dualidad")
          /\ reported = <<>>

Wit_C10_EmptyResults ==
    /\ pc = "done"
    /\ eq1 = <<>>
    /\ args.refine /\ args.sintesis
    /\ log = <<"pass1">>

\* further cases of the claims above that the pipeline reaches
Case_C10_EmptySynthesis ==
    /\ pc = "done" /\ eq_final # <<>> /\ InLog("sin resultados de sintesis")
    /\ args.reject_sintesis_if_polo

Case_C5_OutgoingEdge ==
    /\ pc = "done" /\ sints # <<>> /\ args.reject_sintesis_if_polo
    /\ \E d \in G.edges : d.tipo = "dualidad" /\ d.u = sints[1].n
    /\ reported = Tail(sints)

Case_C5_OutOfScope ==
    /\ pc = "done" /\ sints # <<>> /\ args.reject_sintesis_if_polo
    /\ \E d \in G.edges : d.tipo = "dualidad" /\ sints[1].n \in {d.u, d.v}
    /\ ~HasDualityEdge(sints[1].n, axes_filtro_s)
    /\ reported[1] = sints[1]

Case_C1_Pass2Unstable ==
    /\ pc = "refined" /\ args.refine /\ eq2 # <<>> /\ ~v2.ok /\ eq2 # eq1

Case_C1_Pass2Empty ==
    /\ pc = "refined" /\ args.refine /\ InLog("refine") /\ eq2 = <<>>

\* C11: with no axis_only, when the refine pass is requested, pass 1 ran
\* without effective axis filtering (--no_axis, or an empty normalized
\* intersection of the poles' axes), pass 1 is non-empty and unstable and its
\* top1 has an empty normalized axis set, then familia_axes_desde_eq returns
\* the empty set, pass 2 returns the same ordered list as pass 1, pass 2 is
\* assessed unstable, and the final result is pass 1's list.
Thm_C11_EmptyRefineFilter ==
    (/\ RefineDecided
     /\ args.refine
     /\ args.axis_only = NoAxis
     /\ args.no_axis \/ axes_filtro_1 = {}
     /\ eq1 # <<>> /\ ~v1.ok
     /\ normalize_axis_set(axes_de_nodo(G, eq1[1].n),
                           args.exclude_auto_dualidad) = {})
    => /\ familia_axes_desde_eq(G, MainA, MainB, eq1[1].n, args.axis_only,
                                args.exclude_auto_dualidad) = {}
       /\ InLog("refine")
       /\ eq2 = eq1
       /\ ~v2.ok /\ v2.razones # <<>>
       /\ eq_final = eq1

\* the refine pass ran after an unfiltered, unstable pass 1 of two candidates
\* whose top1 has axes, all of them auto-duality axes that normalization drops
Wit_C11_EmptyRefineFilter ==
    /\ pc = "refined"
    /\ args.refine /\ args.axis_only = NoAxis
    /\ ~args.no_axis /\ axes_filtro_1 = {}
    /\ Len(eq1) >= 2 /\ ~v1.ok
    /\ axes_de_nodo(G, eq1[1].n) # {}
    /\ normalize_axis_set(axes_de_nodo(G, eq1[1].n),
                          args.exclude_auto_dualidad) = {}
    /\ InLog("refine") /\ eq2 = eq1 /\ eq_final = eq1

Case_C11_NoAxis ==
    /\ pc = "refined" /\ args.refine /\ args.axis_only = NoAxis
    /\ args.no_axis /\ axes_filtro_1 # {}
    /\ Len(eq1) >= 2 /\ ~v1.ok
    /\ axes_de_nodo(G, eq1[1].n) = {}
    /\ InLog("refine") /\ eq2 = eq1

====
